---- MODULE Spec2Model ----
(***************************************************************************)
(* Column construction (createColumn), its memoized accessors and the      *)
(* Svelte adapter (createSvelteTable) of the table engine.                 *)
(*                                                                         *)
(* JavaScript strings are sequences of one-character strings, so that      *)
(* replace, includes and split are computed character by character.        *)
(* JavaScript values of a column definition are records [t, v]: t is the   *)
(* typeof tag ("absent" for a property the object does not own), v the     *)
(* payload (the characters of a string, the name of a function object).    *)
(***************************************************************************)
EXTENDS Integers, Sequences, FiniteSets, TLC

VARIABLES
    NODE_ENV,        \* process.env.NODE_ENV
    defaultColumn,   \* what table._getDefaultColumnDef() returns
    features,        \* table._features, in own-property order
    orderColumnsFn,  \* what table._getOrderColumnsFn() currently returns
    nodes,           \* the column nodes allocated so far (index = reference)
    call,            \* the last call made and what it returned
    optionsStore,    \* createSvelteTable: the value the options store holds
    optionsIsStore,  \* createSvelteTable: was options given as a store?
    resolvedOptions, \* createSvelteTable: the options the table was created with
    stateStore,      \* createSvelteTable: the value of the internal state store
    tableOptions,    \* table.options
    subscribers      \* how many subscribers the returned handle has

columnModel == <<NODE_ENV, defaultColumn, features, orderColumnsFn, nodes>>

adapter ==
    <<optionsStore, optionsIsStore, resolvedOptions, stateStore, tableOptions, subscribers>>

vars == <<columnModel, call, adapter>>

----------------------------------------------------------------------------
(* Bounds *)

MaxKeyLen == 5       \* longest accessorKey drawn, in characters
MaxFeatures == 3     \* most features registered on a table
MaxAccKeyLen == 3    \* longest accessorKey applied to rows, in characters
MaxRowDepth == 2     \* deepest nesting of the rows drawn
MaxNodes == 3        \* most column nodes allocated in a column tree
MaxMemoNodes == 2    \* most column nodes when both accessors are in use
MaxSubscribers == 2  \* most subscribers the adapter's handle has at a time

----------------------------------------------------------------------------
(* JavaScript values *)

Absent == [t |-> "absent", v |-> <<>>]
Undefined == [t |-> "undefined", v |-> <<>>]
Str(s) == [t |-> "string", v |-> s]
Fn(name) == [t |-> "function", v |-> <<name>>]

\* obj.k : a property the object does not own reads as undefined
Prop(obj, k) == IF obj[k].t = "absent" THEN Undefined ELSE obj[k]

\* ToBoolean
Truthy(x) ==
    \/ x.t = "function"
    \/ x.t = "string" /\ x.v # <<>>

\* x ?? y
Nullish(x) == x.t \in {"absent", "undefined"}

Coalesce(x, y) == IF Nullish(x) THEN y ELSE x

RECURSIVE IndexOf(_, _, _)
\* first position >= i of character c in s, 0 when there is none
IndexOf(s, c, i) ==
    IF i > Len(s) THEN 0
    ELSE IF s[i] = c THEN i
    ELSE IndexOf(s, c, i + 1)

\* String.prototype.includes with a one-character pattern
Includes(s, c) == IndexOf(s, c, 1) # 0

\* a replace that rewrites every match (String.prototype.replaceAll)
ReplaceEvery(s, c, r) == [i \in 1..Len(s) |-> IF s[i] = c THEN r ELSE s[i]]

\* String.prototype.replace with a string pattern: the first match only
ReplaceFirst(s, c, r) ==
    LET i == IndexOf(s, c, 1)
    IN  IF i = 0 THEN s
        ELSE SubSeq(s, 1, i - 1) \o <<r>> \o SubSeq(s, i + 1, Len(s))

RECURSIVE Split(_, _)
\* String.prototype.split with a one-character separator
Split(s, c) ==
    LET i == IndexOf(s, c, 1)
    IN  IF i = 0 THEN <<s>>
        ELSE <<SubSeq(s, 1, i - 1)>> \o Split(SubSeq(s, i + 1, Len(s)), c)

----------------------------------------------------------------------------
(* createColumn *)

DefKeys == {"id", "accessorKey", "accessorFn", "header"}

\* { ...defaultColumn, ...columnDef }
ResolveColumnDef(defaults, columnDef) ==
    [k \in DefKeys |-> IF columnDef[k].t # "absent" THEN columnDef[k] ELSE defaults[k]]

\* let id = resolvedColumnDef.id ?? (accessorKey ? ... : undefined) ?? (...)
ResolveId(resolvedColumnDef) ==
    LET accessorKey == Prop(resolvedColumnDef, "accessorKey")
        header == Prop(resolvedColumnDef, "header")
    IN  Coalesce(
            Coalesce(
                Prop(resolvedColumnDef, "id"),
                IF Truthy(accessorKey)
                THEN Str(ReplaceFirst(accessorKey.v, ".", "_"))
                ELSE Undefined),
            IF header.t = "string" THEN header ELSE Undefined)

NoAccessor == [kind |-> "undefined", key |-> <<>>, fn |-> <<>>]

\* an accessor resolution that looks at accessorKey before accessorFn
ResolveAccessorFnKeyFirst(resolvedColumnDef) ==
    LET accessorKey == Prop(resolvedColumnDef, "accessorKey")
        accessorFn == Prop(resolvedColumnDef, "accessorFn")
    IN  IF Truthy(accessorKey)
        THEN IF Includes(accessorKey.v, ".")
             THEN [kind |-> "deep", key |-> accessorKey.v, fn |-> <<>>]
             ELSE [kind |-> "single", key |-> accessorKey.v, fn |-> <<>>]
        ELSE IF Truthy(accessorFn)
        THEN [kind |-> "user", key |-> <<>>, fn |-> accessorFn.v]
        ELSE NoAccessor

\* the accessorFn of the node: the definition's own function, a deep-key
\* walker, a single-property reader, or undefined
ResolveAccessorFn(resolvedColumnDef) ==
    LET accessorKey == Prop(resolvedColumnDef, "accessorKey")
        accessorFn == Prop(resolvedColumnDef, "accessorFn")
    IN  IF Truthy(accessorFn)
        THEN [kind |-> "user", key |-> <<>>, fn |-> accessorFn.v]
        ELSE IF Truthy(accessorKey)
        THEN IF Includes(accessorKey.v, ".")
             THEN [kind |-> "deep", key |-> accessorKey.v, fn |-> <<>>]
             ELSE [kind |-> "single", key |-> accessorKey.v, fn |-> <<>>]
        ELSE NoAccessor

\* the message of the Error thrown when no id is resolved
MissingIdMessage(env, resolvedColumnDef) ==
    IF env # "production"
    THEN IF Truthy(Prop(resolvedColumnDef, "accessorFn"))
         THEN "Columns require an id when using an accessorFn"
         ELSE "Columns require an id when using a non-string header"
    ELSE ""

\* memo(getDeps, fn, opts): the closure starts with deps = [] and no result
NewMemo == [deps |-> <<>>, result |-> <<>>]

ExtraFields == {"x", "y"}

NoExtras == [f \in ExtraFields |-> "unset"]

\* a column object that does not keep the depth it is given
NewColumnAtDepthZero(id, accessorFn, parent, depth, resolvedColumnDef) ==
    [id |-> id.v,
     accessorFn |-> accessorFn,
     parent |-> parent,
     depth |-> 0,
     columnDef |-> resolvedColumnDef,
     columns |-> <<>>,
     getFlatColumns |-> [deps |-> <<>>, result |-> <<>>],
     getLeafColumns |-> [deps |-> <<>>, result |-> <<>>],
     extras |-> [f \in {"x", "y"} |-> "unset"]]

\* let column = { id, accessorFn, parent, depth, columnDef, columns: [], ... }
NewColumn(id, accessorFn, parent, depth, resolvedColumnDef) ==
    [id |-> id.v,
     accessorFn |-> accessorFn,
     parent |-> parent,
     depth |-> depth,
     columnDef |-> resolvedColumnDef,
     columns |-> <<>>,
     getFlatColumns |-> NewMemo,
     getLeafColumns |-> NewMemo,
     extras |-> NoExtras]

\* feature.createColumn?.(column, table) : a hook writes one extra field
ApplyHook(feature, column) ==
    IF feature.createColumn.defined
    THEN [column EXCEPT !.extras[feature.createColumn.field] = feature.createColumn.value]
    ELSE column

RECURSIVE RunFeaturesBackwards(_, _, _)
\* a feature loop that walks table._features from the last feature to the first
RunFeaturesBackwards(table, i, acc) ==
    IF i > Len(table.features) THEN acc
    ELSE LET feature == table.features[Len(table.features) + 1 - i]
         IN  RunFeaturesBackwards(table, i + 1,
                IF feature.createColumn.defined
                THEN [column |-> ApplyHook(feature, acc.column),
                      hookCalls |-> Append(acc.hookCalls,
                                      [feature |-> feature.name,
                                       column |-> acc.column,
                                       table |-> table])]
                ELSE acc)

RECURSIVE RunFeatures(_, _, _)
\* Object.values(table._features).forEach(...) from feature i on: the column
\* after the hooks, and the hook invocations with the arguments each received
RunFeatures(table, i, acc) ==
    IF i > Len(table.features) THEN acc
    ELSE RunFeatures(table, i + 1,
            IF table.features[i].createColumn.defined
            THEN [column |-> ApplyHook(table.features[i], acc.column),
                  hookCalls |-> Append(acc.hookCalls,
                                  [feature |-> table.features[i].name,
                                   column |-> acc.column,
                                   table |-> table])]
            ELSE acc)

NoColumn == [id |-> <<>>]

\* the missing-id check: does construction stop with an Error?
ThrowsOnlyOutsideProduction(env, id) == ~Truthy(id) /\ env # "production"

\* if (!id) { ... throw new Error(...) } : both branches throw
ThrowsMissingId(env, id) == ~Truthy(id)

createColumn(table, columnDef, depth, parent) ==
    LET resolvedColumnDef == ResolveColumnDef(table.defaultColumn, columnDef)
        id == ResolveId(resolvedColumnDef)
        accessorFn == ResolveAccessorFn(resolvedColumnDef)
    IN  IF ThrowsMissingId(table.env, id)
        THEN [threw |-> TRUE,
              message |-> MissingIdMessage(table.env, resolvedColumnDef),
              column |-> NoColumn,
              hookCalls |-> <<>>]
        ELSE LET done == RunFeatures(table, 1,
                            [column |-> NewColumn(id, accessorFn, parent, depth,
                                                  resolvedColumnDef),
                             hookCalls |-> <<>>])
             IN  [threw |-> FALSE,
                  message |-> "",
                  column |-> done.column,
                  hookCalls |-> done.hookCalls]

----------------------------------------------------------------------------
(* The resolved accessor applied to a row *)

\* A row value is a chain of single-property objects: path lists the property
\* names from the outside in, leaf is what the innermost property holds
\* (undefined, null, a number, or an object without own properties).
Value(path, leaf) == [path |-> path, leaf |-> leaf]

UndefinedValue == Value(<<>>, "undefined")

IsNullishValue(v) == v.path = <<>> /\ v.leaf \in {"undefined", "null"}

\* v[k] of a value that is not nullish
OwnOrUndefined(v, k) ==
    IF v.path # <<>> /\ Head(v.path) = k
    THEN Value(Tail(v.path), v.leaf)
    ELSE UndefinedValue

Returned(v) == [threw |-> FALSE, value |-> v]
TypeError == [threw |-> TRUE, value |-> UndefinedValue]

\* result[key] : a TypeError on null and undefined
Member(v, k) == IF IsNullishValue(v) THEN TypeError ELSE Returned(OwnOrUndefined(v, k))

\* member access without the optional chain
UncheckedMember(v, k) == Member(v, k)

\* result?.[key] : undefined on null and undefined
OptionalMember(v, k) ==
    IF IsNullishValue(v) THEN Returned(UndefinedValue) ELSE Returned(OwnOrUndefined(v, k))

RECURSIVE WalkKeys(_, _, _, _, _)
\* for (const key of accessorKey.split('.')) { result = result?.[key]; warn }
WalkKeys(env, keys, i, result, warnings) ==
    IF i > Len(keys)
    THEN [threw |-> FALSE, value |-> result, warnings |-> warnings]
    ELSE LET step == OptionalMember(result, keys[i])
         IN  IF step.threw
             THEN [threw |-> TRUE, value |-> UndefinedValue, warnings |-> warnings]
             ELSE WalkKeys(env, keys, i + 1, step.value,
                    IF env # "production" /\ step.value = UndefinedValue
                    THEN warnings + 1 ELSE warnings)

UserValue == Value(<<>>, "userValue")

\* column.accessorFn(originalRow)
ApplyAccessor(env, accessorFn, originalRow) ==
    IF accessorFn.kind = "deep"
    THEN WalkKeys(env, Split(accessorFn.key, "."), 1, originalRow, 0)
    ELSE IF accessorFn.kind = "single"
    THEN LET read == Member(originalRow, accessorFn.key)
         IN  [threw |-> read.threw, value |-> read.value, warnings |-> 0]
    ELSE [threw |-> FALSE, value |-> UserValue, warnings |-> 0]

----------------------------------------------------------------------------
(* The memoized accessors getFlatColumns and getLeafColumns *)

\* memo: the cached result is returned unless the dependency key changed
DepsChanged(deps, newDeps) == deps # newDeps

\* a getFlatColumns keyed on the children the column holds
FlatDepsOnColumns(column) == <<[dep |-> "columns", is |-> column.columns]>>

\* () => [true]
FlatDeps(column) == <<[dep |-> "true"]>>

\* a getLeafColumns keyed on a constant
LeafDepsConstant(fn) == <<[dep |-> "true", is |-> "true"]>>

\* () => [table._getOrderColumnsFn()]
LeafDeps(fn) == <<[dep |-> "orderColumnsFn", is |-> fn]>>

Reverse(s) == [i \in 1..Len(s) |-> s[Len(s) + 1 - i]]

\* a group that returns its leaf columns without ordering them
OrderColumnsSkipped(fn, leafColumns) == leafColumns

\* orderColumns(leafColumns) for the ordering functions a table may hold
OrderColumns(fn, leafColumns) ==
    IF fn = "reverse" THEN Reverse(leafColumns) ELSE leafColumns

RECURSIVE FlatCall(_, _)
RECURSIVE FlatMapFlat(_, _, _)
RECURSIVE FlatMapFlatBackwards(_, _, _)

\* ns[n].getFlatColumns() : the nodes afterwards, the array returned and the
\* nodes whose function body ran
FlatCall(ns, n) ==
    LET cell == ns[n].getFlatColumns
        newDeps == FlatDeps(ns[n])
    IN  IF ~DepsChanged(cell.deps, newDeps)
        THEN [nodes |-> ns, result |-> cell.result, ran |-> {}]
        ELSE LET kids == FlatMapFlat(ns, ns[n].columns, 1)
                 result == <<n>> \o kids.result
             IN  [nodes |-> [kids.nodes EXCEPT
                               ![n].getFlatColumns = [deps |-> newDeps, result |-> result]],
                  result |-> result,
                  ran |-> kids.ran \cup {n}]

\* a flatMap that puts the later children first
FlatMapFlatBackwards(ns, cs, i) ==
    IF i > Len(cs) THEN [nodes |-> ns, result |-> <<>>, ran |-> {}]
    ELSE LET first == FlatCall(ns, cs[i])
             rest == FlatMapFlatBackwards(first.nodes, cs, i + 1)
         IN  [nodes |-> rest.nodes,
              result |-> rest.result \o first.result,
              ran |-> first.ran \cup rest.ran]

\* column.columns?.flatMap(d => d.getFlatColumns()) from child i on
FlatMapFlat(ns, cs, i) ==
    IF i > Len(cs) THEN [nodes |-> ns, result |-> <<>>, ran |-> {}]
    ELSE LET first == FlatCall(ns, cs[i])
             rest == FlatMapFlat(first.nodes, cs, i + 1)
         IN  [nodes |-> rest.nodes,
              result |-> first.result \o rest.result,
              ran |-> first.ran \cup rest.ran]

RECURSIVE LeafCall(_, _, _)
RECURSIVE FlatMapLeaf(_, _, _, _)

\* ns[n].getLeafColumns() while the table's ordering function is fn
LeafCall(ns, fn, n) ==
    LET cell == ns[n].getLeafColumns
        newDeps == LeafDeps(fn)
    IN  IF ~DepsChanged(cell.deps, newDeps)
        THEN [nodes |-> ns, result |-> cell.result, ran |-> {}]
        ELSE IF Len(ns[n].columns) # 0
        THEN LET kids == FlatMapLeaf(ns, fn, ns[n].columns, 1)
                 result == OrderColumns(fn, kids.result)
             IN  [nodes |-> [kids.nodes EXCEPT
                               ![n].getLeafColumns = [deps |-> newDeps, result |-> result]],
                  result |-> result,
                  ran |-> kids.ran \cup {n}]
        ELSE [nodes |-> [ns EXCEPT
                           ![n].getLeafColumns = [deps |-> newDeps, result |-> <<n>>]],
              result |-> <<n>>,
              ran |-> {n}]

\* column.columns.flatMap(column => column.getLeafColumns()) from child i on
FlatMapLeaf(ns, fn, cs, i) ==
    IF i > Len(cs) THEN [nodes |-> ns, result |-> <<>>, ran |-> {}]
    ELSE LET first == LeafCall(ns, fn, cs[i])
             rest == FlatMapLeaf(first.nodes, fn, cs, i + 1)
         IN  [nodes |-> rest.nodes,
              result |-> first.result \o rest.result,
              ran |-> first.ran \cup rest.ran]

Table == [defaultColumn |-> defaultColumn, features |-> features, env |-> NODE_ENV]

----------------------------------------------------------------------------
(* Inputs of the identifier specification *)

RECURSIVE StringsUpTo(_, _)
StringsUpTo(chars, n) ==
    IF n = 0 THEN {<<>>}
    ELSE LET shorter == StringsUpTo(chars, n - 1)
         IN  shorter \cup {Append(s, c) : s \in shorter, c \in chars}

KeyChars == {"a", "."}

AccessorKeys == StringsUpTo(KeyChars, MaxKeyLen)

EmptyDef == [k \in DefKeys |-> Absent]

IdValues == {Absent, Undefined, Str(<<>>), Str(<<"a", ".", "b">>)}
HeaderValues == {Absent, Str(<<>>), Str(<<"h", ".", "h">>), Fn("renderHeader")}
AccessorFnValues == {Absent, Fn("getValue")}
AccessorKeyValues == {Absent} \cup {Str(s) : s \in AccessorKeys}

ColumnDefs ==
    [id : IdValues, accessorKey : AccessorKeyValues,
     accessorFn : AccessorFnValues, header : HeaderValues]

DefaultColumnDefs ==
    {EmptyDef,
     [EmptyDef EXCEPT !.header = Fn("defaultHeader")],
     [EmptyDef EXCEPT !.id = Str(<<"d">>), !.accessorFn = Fn("defaultValue")]}

Hook(field, value) == [defined |-> TRUE, field |-> field, value |-> value]
NoHook == [defined |-> FALSE, field |-> "x", value |-> "unset"]

Feature(name, hook) == [name |-> name, createColumn |-> hook]

FeatureNames == <<"f1", "f2", "f3", "f4">>

\* the hooks feature i may carry: none, or one writing "x" or "y" with its own name
HooksOf(i) == {NoHook, Hook("x", FeatureNames[i]), Hook("y", FeatureNames[i])}

RECURSIVE FeatureLists(_)
\* every registration of n features
FeatureLists(n) ==
    IF n = 0 THEN {<<>>}
    ELSE {Append(fs, Feature(FeatureNames[n], h)) : fs \in FeatureLists(n - 1), h \in HooksOf(n)}

IdFeatureLists ==
    {<<Feature("f1", Hook("x", "f1"))>>,
     <<Feature("f1", NoHook), Feature("f2", Hook("y", "f2"))>>}

NoCall == [op |-> "none"]

\* no createSvelteTable handle exists
NoAdapter ==
    /\ optionsStore = "none"
    /\ optionsIsStore = FALSE
    /\ resolvedOptions = "none"
    /\ stateStore = "none"
    /\ tableOptions = "none"
    /\ subscribers = 0

InitId ==
    /\ NODE_ENV \in {"production", "development"}
    /\ defaultColumn \in DefaultColumnDefs
    /\ features \in IdFeatureLists
    /\ orderColumnsFn = "identity"
    /\ nodes = <<>>
    /\ call = NoCall
    /\ NoAdapter

\* a caller constructs one column and looks at what it got
CreateColumnCall(columnDef, depth, parent) ==
    /\ call = NoCall
    /\ call' = [op |-> "createColumn",
                columnDef |-> columnDef, depth |-> depth, parent |-> parent,
                out |-> createColumn(Table, columnDef, depth, parent)]
    /\ UNCHANGED <<NODE_ENV, defaultColumn, features, orderColumnsFn, nodes>>
    /\ UNCHANGED adapter

NextId ==
    \E columnDef \in ColumnDefs : CreateColumnCall(columnDef, 0, 0)

SpecId == InitId /\ [][NextId]_vars

----------------------------------------------------------------------------
(* Claims about identifier and accessor resolution, checked under SpecId *)

\* the definition of the last call with the table defaults merged under it
Merged(k) ==
    IF call.columnDef[k].t = "absent" THEN defaultColumn[k] ELSE call.columnDef[k]

Given(x) == x.t \notin {"absent", "undefined"}

\* s with its first "." turned into "_" and every other character kept
FirstDotToUnderscore(s) ==
    [i \in 1..Len(s) |->
        IF s[i] = "." /\ \A j \in 1..(i - 1) : s[j] # "." THEN "_" ELSE s[i]]

\* the identifier the priority rule names: explicit id, else accessorKey with
\* its first dot replaced, else a plain-string header; <<>> when none applies
PriorityId ==
    IF Given(Merged("id")) THEN Merged("id").v
    ELSE IF Merged("accessorKey").t = "string" /\ Merged("accessorKey").v # <<>>
    THEN FirstDotToUnderscore(Merged("accessorKey").v)
    ELSE IF Merged("header").t = "string" THEN Merged("header").v
    ELSE <<>>

Created == call.op = "createColumn" /\ ~call.out.threw

\* C1: the node's id is the explicit id if present, else the accessorKey with
\* only its first "." replaced by "_", else the header when it is a plain
\* string; a non-empty explicit id is kept exactly.
C1_IdPriority ==
    call.op = "createColumn" =>
        /\ PriorityId # <<>> => Created
        /\ Created => call.out.column.id = PriorityId
        /\ (Created /\ Merged("id").t = "string") => call.out.column.id = Merged("id").v

C1_Witness ==
    /\ Created
    /\ ~Given(Merged("id"))
    /\ Merged("accessorKey") = Str(<<"a", ".", "a", ".", "a">>)
    /\ Merged("header") = Str(<<"h", ".", "h">>)
    /\ call.out.column.id = <<"a", "_", "a", ".", "a">>

\* C2: when no non-empty id can be resolved, createColumn throws in production
\* and outside it: no node is returned, no feature hook is invoked, and the
\* build mode only changes the message of the error.
C2_MissingIdThrows ==
    (call.op = "createColumn" /\ PriorityId = <<>>) =>
        /\ call.out.threw
        /\ call.out.column = NoColumn
        /\ call.out.hookCalls = <<>>
        /\ call.out.message =
              IF NODE_ENV = "production" THEN ""
              ELSE IF Merged("accessorFn").t = "function"
              THEN "Columns require an id when using an accessorFn"
              ELSE "Columns require an id when using a non-string header"

C2_Witness ==
    /\ call.op = "createColumn"
    /\ NODE_ENV = "production"
    /\ call.columnDef.accessorFn.t = "function"
    /\ ~Given(Merged("id")) /\ ~Given(Merged("accessorKey")) /\ Merged("header").t # "string"
    /\ \E i \in 1..Len(features) : features[i].createColumn.defined
    /\ call.out.threw

\* C3 as stated: with accessorFn present the node's accessorFn is that function
\* and the node's id comes only from def.id or from a plain-string def.header.
C3_IdOnlyFromIdOrHeader ==
    (Created /\ Merged("accessorFn").t = "function") =>
        /\ call.out.column.accessorFn = [kind |-> "user", key |-> <<>>, fn |-> Merged("accessorFn").v]
        /\ \/ Given(Merged("id")) /\ call.out.column.id = Merged("id").v
           \/ Merged("header").t = "string" /\ call.out.column.id = Merged("header").v

\* C3 amended: with accessorFn present the node's accessorFn is that function
\* (also when an accessorKey is given), and the node's id is the explicit id,
\* else the accessorKey (first "." replaced) when one is given too, else a
\* plain-string header; with none of the three, construction throws: the
\* accessor function never supplies an id.
C3_AccessorFnVerbatim ==
    (call.op = "createColumn" /\ Merged("accessorFn").t = "function") =>
        /\ Created =>
              /\ call.out.column.accessorFn =
                    [kind |-> "user", key |-> <<>>, fn |-> Merged("accessorFn").v]
              /\ call.out.column.id = PriorityId
        /\ (/\ ~Given(Merged("id"))
            /\ ~Given(Merged("accessorKey"))
            /\ Merged("header").t # "string") => call.out.threw

C3_Witness ==
    /\ Created
    /\ call.columnDef.accessorFn = Fn("getValue")
    /\ call.columnDef.accessorKey = Str(<<"a", ".", "a">>)
    /\ ~Given(Merged("id"))
    /\ call.out.column.accessorFn.kind = "user"
    /\ call.out.column.id = <<"a", "_", "a">>

----------------------------------------------------------------------------
(* The feature hooks, checked under SpecFeat *)

AllFeatureLists == UNION {FeatureLists(n) : n \in 0..MaxFeatures}

FeatureColumnDefs ==
    {[EmptyDef EXCEPT !.id = Str(<<"i">>)],
     [EmptyDef EXCEPT !.accessorKey = Str(<<"a", ".", "b">>)],
     [EmptyDef EXCEPT !.accessorFn = Fn("getValue"), !.header = Str(<<"h">>)],
     [EmptyDef EXCEPT !.accessorFn = Fn("getValue")]}

InitFeat ==
    /\ NODE_ENV \in {"production", "development"}
    /\ defaultColumn = [EmptyDef EXCEPT !.header = Fn("defaultHeader")]
    /\ features \in AllFeatureLists
    /\ orderColumnsFn = "identity"
    /\ nodes = <<>>
    /\ call = NoCall
    /\ NoAdapter

NextFeat ==
    \E columnDef \in FeatureColumnDefs, dp \in {<<0, 0>>, <<1, 1>>} :
        CreateColumnCall(columnDef, dp[1], dp[2])

SpecFeat == InitFeat /\ [][NextFeat]_vars

\* the features that define a createColumn hook, in registration order
Hooked == SelectSeq(features, LAMBDA f : f.createColumn.defined)

\* the positions of the features whose hook writes field
WritersOf(field) ==
    {i \in 1..Len(features) :
        features[i].createColumn.defined /\ features[i].createColumn.field = field}

Last(S) == CHOOSE i \in S : \A j \in S : j <= i

\* C8: in a successful createColumn every feature's createColumn hook (where
\* defined) runs exactly once, with the new node and the table, in registration
\* order, after the core fields and both memoized accessors are installed and
\* before the node is returned; a field two features set holds the value of
\* the later-registered one.
C8_HooksInOrder ==
    Created =>
        LET calls == call.out.hookCalls
            node == call.out.column
        IN  /\ Len(calls) = Len(Hooked)
            /\ \A j \in 1..Len(calls) :
                  /\ calls[j].feature = Hooked[j].name
                  /\ calls[j].table = Table
                  /\ calls[j].column.id = node.id
                  /\ calls[j].column.accessorFn = node.accessorFn
                  /\ calls[j].column.parent = call.parent
                  /\ calls[j].column.depth = call.depth
                  /\ calls[j].column.columnDef = node.columnDef
                  /\ calls[j].column.columns = <<>>
                  /\ calls[j].column.getFlatColumns = NewMemo
                  /\ calls[j].column.getLeafColumns = NewMemo
                  /\ \A f \in ExtraFields :
                        LET earlier == {i \in 1..(j - 1) : Hooked[i].createColumn.field = f}
                        IN  calls[j].column.extras[f] =
                              IF earlier = {} THEN "unset"
                              ELSE Hooked[Last(earlier)].createColumn.value
            /\ \A f \in ExtraFields :
                  node.extras[f] =
                    IF WritersOf(f) = {} THEN "unset"
                    ELSE features[Last(WritersOf(f))].createColumn.value

C8_Witness ==
    /\ Created
    /\ Len(features) = 3
    /\ features[1].createColumn = Hook("x", "f1")
    /\ features[2].createColumn = NoHook
    /\ features[3].createColumn = Hook("x", "f3")
    /\ Len(call.out.hookCalls) = 2
    /\ call.out.column.extras["x"] = "f3"

----------------------------------------------------------------------------
(* The accessor on rows, checked under SpecAcc *)

AccChars == {"a", "b", "."}

AccColumnDefs ==
    [id : {Str(<<"i">>)},
     accessorKey : {Str(k) : k \in StringsUpTo(AccChars, MaxAccKeyLen)},
     accessorFn : AccessorFnValues,
     header : {Absent}]

RECURSIVE Paths(_)
Paths(n) ==
    IF n = 0 THEN {<<>>}
    ELSE LET shorter == Paths(n - 1)
         IN  shorter \cup {Append(p, <<c>>) : p \in shorter, c \in {"a", "b"}}

Rows == {Value(p, leaf) : p \in Paths(MaxRowDepth),
                          leaf \in {"undefined", "null", "number", "object"}}

InitAcc ==
    /\ NODE_ENV \in {"production", "development"}
    /\ defaultColumn = EmptyDef
    /\ features = <<>>
    /\ orderColumnsFn = "identity"
    /\ nodes = <<>>
    /\ call = NoCall
    /\ NoAdapter

\* a caller reads a row through the accessor of the column it constructed
AccessorCall(originalRow) ==
    /\ call.op = "createColumn"
    /\ ~call.out.threw
    /\ call.out.column.accessorFn.kind # "undefined"
    /\ call' = [op |-> "accessorFn",
                column |-> call.out.column,
                originalRow |-> originalRow,
                out |-> ApplyAccessor(NODE_ENV, call.out.column.accessorFn, originalRow)]
    /\ UNCHANGED <<NODE_ENV, defaultColumn, features, orderColumnsFn, nodes>>
    /\ UNCHANGED adapter

NextAcc ==
    \/ \E columnDef \in AccColumnDefs : CreateColumnCall(columnDef, 0, 0)
    \/ \E originalRow \in Rows : AccessorCall(originalRow)

SpecAcc == InitAcc /\ [][NextAcc]_vars

RECURSIVE JoinDots(_)
\* the property names of a path written as one dotted key
JoinDots(path) ==
    IF path = <<>> THEN <<>>
    ELSE IF Len(path) = 1 THEN path[1]
    ELSE path[1] \o <<".">> \o JoinDots(Tail(path))

HasDot(s) == \E i \in 1..Len(s) : s[i] = "."

\* C4: for an accessorKey containing "." (and no accessorFn) the accessor walks
\* the row segment by segment and never raises: it returns the nested value
\* when every intermediate value is non-nullish and undefined as soon as one
\* is nullish; a key without "." reads the single property of the row.
C4_DeepAccessor ==
    (call.op = "accessorFn" /\ call.column.columnDef.accessorFn.t # "function") =>
        LET key == call.column.columnDef.accessorKey.v
            row == call.originalRow
            reached == {n \in 1..Len(row.path) : JoinDots(SubSeq(row.path, 1, n)) = key}
        IN  /\ HasDot(key) =>
                  /\ ~call.out.threw
                  /\ call.out.value =
                        IF reached = {} THEN UndefinedValue
                        ELSE Value(SubSeq(row.path, 1 + Last(reached), Len(row.path)), row.leaf)
            /\ (~HasDot(key) /\ ~IsNullishValue(row)) =>
                  /\ ~call.out.threw
                  /\ call.out.value =
                        IF row.path # <<>> /\ row.path[1] = key
                        THEN Value(Tail(row.path), row.leaf)
                        ELSE UndefinedValue

\* row {a: null} read through key "a.b" gives undefined without raising
C4_Witness ==
    /\ call.op = "accessorFn"
    /\ call.column.columnDef.accessorFn.t # "function"
    /\ call.column.columnDef.accessorKey.v = <<"a", ".", "b">>
    /\ call.originalRow = Value(<< <<"a">> >>, "null")
    /\ ~call.out.threw
    /\ call.out.value = UndefinedValue

\* row {a: {b: 5}} read through key "a.b" gives the number
C4_NestedValueReached ==
    /\ call.op = "accessorFn"
    /\ call.column.columnDef.accessorFn.t # "function"
    /\ call.column.columnDef.accessorKey.v = <<"a", ".", "b">>
    /\ call.originalRow = Value(<< <<"a">>, <<"b">> >>, "number")
    /\ call.out = [threw |-> FALSE, value |-> Value(<<>>, "number"), warnings |-> 0]

----------------------------------------------------------------------------
(* A column tree under construction and in use *)

OrderFns == {"identity", "reverse"}

GroupDef == [EmptyDef EXCEPT !.accessorKey = Str(<<"a", ".", "b">>)]
UnnamedDef == [EmptyDef EXCEPT !.accessorFn = Fn("getValue")]

InitTree ==
    /\ NODE_ENV = "production"
    /\ defaultColumn = [EmptyDef EXCEPT !.header = Fn("defaultHeader")]
    /\ features = <<Feature("f1", Hook("x", "f1"))>>
    /\ orderColumnsFn = "identity"
    /\ nodes = <<>>
    /\ call = NoCall
    /\ NoAdapter

\* the table's column-model build makes one node: a root at depth 0, or a
\* child one level below the node it is built under
BuildColumn(limit, columnDef, parent) ==
    /\ Len(nodes) < limit
    /\ LET depth == IF parent = 0 THEN 0 ELSE nodes[parent].depth + 1
           out == createColumn(Table, columnDef, depth, parent)
       IN  /\ call' = [op |-> "createColumn",
                       columnDef |-> columnDef, depth |-> depth, parent |-> parent,
                       out |-> out]
           /\ nodes' = IF out.threw THEN nodes ELSE Append(nodes, out.column)
    /\ UNCHANGED <<NODE_ENV, defaultColumn, features, orderColumnsFn>>
    /\ UNCHANGED adapter

RECURSIVE Arrangements(_)
\* the sequences without repetition over the members of S
Arrangements(S) ==
    {<<>>} \cup UNION {{<<c>> \o rest : rest \in Arrangements(S \ {c})} : c \in S}

ChildrenOf(p) == {c \in 1..Len(nodes) : nodes[c].parent = p}

\* column.columns = [...] : the caller assigns children built under p
AssignColumns(p, cs) ==
    /\ cs # nodes[p].columns
    /\ nodes' = [nodes EXCEPT ![p].columns = cs]
    /\ call' = [op |-> "assignColumns", node |-> p]
    /\ UNCHANGED <<NODE_ENV, defaultColumn, features, orderColumnsFn>>
    /\ UNCHANGED adapter

GetFlatColumns(n) ==
    LET done == FlatCall(nodes, n)
    IN  /\ nodes' = done.nodes
        /\ call' = [op |-> "getFlatColumns", node |-> n,
                    out |-> done.result, ran |-> done.ran]
        /\ UNCHANGED <<NODE_ENV, defaultColumn, features, orderColumnsFn>>
        /\ UNCHANGED adapter

GetLeafColumns(n) ==
    LET done == LeafCall(nodes, orderColumnsFn, n)
    IN  /\ nodes' = done.nodes
        /\ call' = [op |-> "getLeafColumns", node |-> n,
                    out |-> done.result, ran |-> done.ran]
        /\ UNCHANGED <<NODE_ENV, defaultColumn, features, orderColumnsFn>>
        /\ UNCHANGED adapter

\* the table's state changes and _getOrderColumnsFn() returns another function
SetOrderColumnsFn(fn) ==
    /\ fn # orderColumnsFn
    /\ orderColumnsFn' = fn
    /\ call' = [op |-> "setOrderColumnsFn"]
    /\ UNCHANGED <<NODE_ENV, defaultColumn, features, nodes>>
    /\ UNCHANGED adapter

Assign == \E p \in 1..Len(nodes) : \E cs \in Arrangements(ChildrenOf(p)) : AssignColumns(p, cs)

NextFlat ==
    \/ \E columnDef \in {GroupDef, UnnamedDef}, parent \in 0..Len(nodes) :
          BuildColumn(MaxNodes, columnDef, parent)
    \/ Assign
    \/ \E n \in 1..Len(nodes) : GetFlatColumns(n)

SpecFlat == InitTree /\ [][NextFlat]_vars

NextLeaf ==
    \/ \E parent \in 0..Len(nodes) : BuildColumn(MaxNodes, GroupDef, parent)
    \/ Assign
    \/ \E n \in 1..Len(nodes) : GetLeafColumns(n)
    \/ \E fn \in OrderFns : SetOrderColumnsFn(fn)

SpecLeaf == InitTree /\ [][NextLeaf]_vars

NextMemo ==
    \/ \E columnDef \in {GroupDef, UnnamedDef}, parent \in 0..Len(nodes) :
          BuildColumn(MaxMemoNodes, columnDef, parent)
    \/ Assign
    \/ \E n \in 1..Len(nodes) : GetFlatColumns(n)
    \/ \E n \in 1..Len(nodes) : GetLeafColumns(n)
    \/ \E fn \in OrderFns : SetOrderColumnsFn(fn)

SpecMemo == InitTree /\ [][NextMemo]_vars

----------------------------------------------------------------------------
(* Claims about the column tree *)

RECURSIVE PreOrder(_)
RECURSIVE PreOrderEach(_, _)
\* the pre-order traversal of the subtree the columns fields span below n
PreOrder(n) == <<n>> \o PreOrderEach(nodes[n].columns, 1)
PreOrderEach(cs, i) ==
    IF i > Len(cs) THEN <<>> ELSE PreOrder(cs[i]) \o PreOrderEach(cs, i + 1)

Subtree(n) == {PreOrder(n)[i] : i \in 1..Len(PreOrder(n))}

RECURSIVE ConcatOver(_, _, _)
\* the concatenation, in child order, of what of[c] holds for each child c
ConcatOver(cs, of, i) ==
    IF i > Len(cs) THEN <<>> ELSE of[cs[i]] \o ConcatOver(cs, of, i + 1)

Ordered(fn, s) ==
    IF fn = "reverse" THEN [i \in 1..Len(s) |-> s[Len(s) + 1 - i]] ELSE s

RECURSIVE LeavesInOrder(_)
RECURSIVE LeavesInOrderEach(_, _)
\* the leaves below n with the current ordering function applied at every group
LeavesInOrder(n) ==
    IF nodes[n].columns = <<>> THEN <<n>>
    ELSE Ordered(orderColumnsFn, LeavesInOrderEach(nodes[n].columns, 1))
LeavesInOrderEach(cs, i) ==
    IF i > Len(cs) THEN <<>> ELSE LeavesInOrder(cs[i]) \o LeavesInOrderEach(cs, i + 1)

FlatComputed(n) == nodes[n].getFlatColumns.deps # <<>>

\* the ordering function getLeafColumns of n saw when it last computed
FnSeen(n) ==
    IF nodes[n].getLeafColumns.deps = <<>> THEN "none"
    ELSE nodes[n].getLeafColumns.deps[1].is

\* C5 as stated: getFlatColumns() returns the pre-order traversal of the
\* node's subtree: the node itself first, then each child's getFlatColumns()
\* result in child order; a leaf gives [self].
C5_AlwaysPreOrder ==
    call.op = "getFlatColumns" =>
        /\ call.out = PreOrder(call.node)
        /\ call.out = <<call.node>> \o
              ConcatOver(nodes[call.node].columns,
                         [c \in 1..Len(nodes) |-> FlatCall(nodes, c).result], 1)

\* C5 amended: the first getFlatColumns() call on a node returns the node
\* itself followed by each child's getFlatColumns() result in child order (a
\* leaf gives [self]), which is the pre-order traversal of the subtree when no
\* node of the subtree had computed its own before; every later call returns
\* that first result, also when columns has changed since.
C5_FlatOnFirstCall ==
    [][call'.op = "getFlatColumns" =>
        LET n == call'.node
        IN  IF ~FlatComputed(n)
            THEN /\ call'.out = <<n>> \o
                       ConcatOver(nodes[n].columns,
                                  [c \in 1..Len(nodes) |-> nodes'[c].getFlatColumns.result], 1)
                 /\ nodes[n].columns = <<>> => call'.out = <<n>>
                 /\ (\A m \in Subtree(n) : ~FlatComputed(m)) => call'.out = PreOrder(n)
            ELSE call'.out = nodes[n].getFlatColumns.result]_vars

\* a parent with two leaf children gives [parent, child1, child2]
C5_Witness ==
    /\ call.op = "getFlatColumns"
    /\ call.node = 1
    /\ nodes[1].columns = <<3, 2>>
    /\ nodes[2].columns = <<>>
    /\ nodes[3].columns = <<>>
    /\ call.out = <<1, 3, 2>>

\* C6 as stated: getLeafColumns() returns [self] for a node without children
\* and otherwise the current ordering function applied to the concatenation,
\* in child order, of each child's getLeafColumns() result.
C6_AlwaysOrderedLeaves ==
    call.op = "getLeafColumns" =>
        call.out =
          IF nodes[call.node].columns = <<>> THEN <<call.node>>
          ELSE Ordered(orderColumnsFn,
                 ConcatOver(nodes[call.node].columns,
                            [c \in 1..Len(nodes) |->
                                LeafCall(nodes, orderColumnsFn, c).result], 1))

\* C6 amended: whenever getLeafColumns() computes (the node's first call, and
\* every call at which the table's ordering function differs from the one of
\* its previous computation) it returns [self] for a node without children and
\* otherwise the current ordering function applied to the concatenation, in
\* child order, of each child's getLeafColumns() result; any other call
\* returns the result of the previous computation, also when columns has
\* changed since.
C6_LeavesWhenComputed ==
    [][call'.op = "getLeafColumns" =>
        LET n == call'.node
        IN  IF FnSeen(n) # orderColumnsFn
            THEN /\ call'.out =
                       IF nodes[n].columns = <<>> THEN <<n>>
                       ELSE Ordered(orderColumnsFn,
                              ConcatOver(nodes[n].columns,
                                         [c \in 1..Len(nodes) |->
                                             nodes'[c].getLeafColumns.result], 1))
                 /\ (\A m \in Subtree(n) : FnSeen(m) = "none") => call'.out = LeavesInOrder(n)
            ELSE call'.out = nodes[n].getLeafColumns.result]_vars

\* a group over two leaves recomputed after the table switched to the
\* reversing order
C6_Witness ==
    /\ call.op = "getLeafColumns"
    /\ orderColumnsFn = "reverse"
    /\ call.node = 1
    /\ nodes[1].columns = <<2, 3>>
    /\ nodes[2].columns = <<>>
    /\ nodes[3].columns = <<>>
    /\ call.out = <<3, 2>>
    /\ call.ran = {1, 2, 3}

\* C7: getFlatColumns computes at most once in the node's lifetime and returns
\* that cached result on every later call, whatever happens to columns;
\* getLeafColumns recomputes exactly when the table's ordering function
\* differs from the one seen at its previous computation and otherwise
\* returns the cached result without recomputation.
C7_Memoization ==
    [][/\ \A n \in 1..Len(nodes) :
             FlatComputed(n) => nodes'[n].getFlatColumns = nodes[n].getFlatColumns
       /\ call'.op = "getFlatColumns" =>
             /\ \A m \in 1..Len(nodes) : (m \in call'.ran) => ~FlatComputed(m)
             /\ (call'.node \in call'.ran) <=> ~FlatComputed(call'.node)
             /\ FlatComputed(call'.node) =>
                   call'.out = nodes[call'.node].getFlatColumns.result
       /\ call'.op = "getLeafColumns" =>
             /\ \A m \in 1..Len(nodes) :
                   /\ (m \in call'.ran) => FnSeen(m) # orderColumnsFn
                   /\ (m \notin call'.ran) =>
                         nodes'[m].getLeafColumns = nodes[m].getLeafColumns
             /\ (call'.node \in call'.ran) <=> FnSeen(call'.node) # orderColumnsFn
             /\ FnSeen(call'.node) = orderColumnsFn =>
                   call'.out = nodes[call'.node].getLeafColumns.result
       /\ call'.op \in {"assignColumns", "setOrderColumnsFn", "createColumn"} =>
             \A n \in 1..Len(nodes) :
                 /\ nodes'[n].getFlatColumns = nodes[n].getFlatColumns
                 /\ nodes'[n].getLeafColumns = nodes[n].getLeafColumns]_vars

\* a getFlatColumns call answered from the cache after columns was assigned,
\* on a node whose getLeafColumns has been recomputed for another ordering
C7_Witness ==
    /\ call.op = "getFlatColumns"
    /\ call.node = 1
    /\ call.ran = {}
    /\ call.out = <<1>>
    /\ nodes[1].columns = <<2>>
    /\ orderColumnsFn = "identity"
    /\ nodes[1].getLeafColumns.deps = LeafDeps("reverse")
    /\ nodes[1].getLeafColumns.result = <<2>>

\* C9: a node constructed with a parent has depth parent.depth + 1 and a root
\* has depth 0; createColumn stores the depth and parent it is given unchanged
\* and returns the node with an empty columns array.
C9_Depth ==
    /\ \A n \in 1..Len(nodes) :
          nodes[n].depth =
            IF nodes[n].parent = 0 THEN 0 ELSE nodes[nodes[n].parent].depth + 1
    /\ (call.op = "createColumn" /\ ~call.out.threw) =>
          /\ call.out.column.depth = call.depth
          /\ call.out.column.parent = call.parent
          /\ call.out.column.columns = <<>>
          /\ nodes[Len(nodes)] = call.out.column

C9_Witness ==
    /\ call.op = "createColumn"
    /\ ~call.out.threw
    /\ call.parent # 0
    /\ nodes[call.parent].parent # 0
    /\ call.out.column.depth = 2
    /\ nodes[Len(nodes)].depth = 2

----------------------------------------------------------------------------
(* createSvelteTable *)

StateKeys == {"sorting", "pagination"}

\* the table state objects: every key holds a value
TableStates == [StateKeys -> {"a", "b"}]

\* table.initialState
InitialState == [k \in StateKeys |-> "a"]

\* options.state as a user supplies it: any key may be left out
UserStates == [StateKeys -> {"absent", "u"}]

UserOptions ==
    [state : UserStates, onStateChange : {"absent", "cb1", "cb2"}, data : {"d1", "d2"}]

\* what the table hands to onStateChange: an updater function (here: the
\* function writing one key) or a plain state
Updaters ==
    [isFunction : {TRUE}, key : StateKeys, value : {"a", "b"}]
        \cup [isFunction : {FALSE}, state : TableStates]

\* { state: {}, onStateChange: () => {}, renderFallbackValue: null, ...get(optionsStore) }
ResolveOptions(options) ==
    [state |-> options.state,
     onStateChange |-> IF options.onStateChange = "absent" THEN "noop"
                       ELSE options.onStateChange,
     renderFallbackValue |-> "null",
     data |-> options.data]

\* a merge in which the internal state overrides the user's keys
StateOverUserState(state, userState) == state

\* { ...state, ...options.state }
MergeState(state, userState) ==
    [k \in StateKeys |-> IF userState[k] # "absent" THEN userState[k] ELSE state[k]]

\* the updater handed to table.setOptions:
\* prev => ({ ...prev, ...options, state: {...}, onStateChange: updater => {...} })
SyncOptions(prev, state, options) ==
    [state |-> MergeState(state, options.state),
     onStateChange |-> "adapter",
     renderFallbackValue |-> prev.renderFallbackValue,
     data |-> options.data]

\* stateStore.update(updater) for a function, stateStore.set(updater) otherwise
StoreAfter(updater, state) ==
    IF updater.isFunction THEN [state EXCEPT ![updater.key] = updater.value]
    ELSE updater.state

InitSvelte ==
    /\ NODE_ENV = "production"
    /\ defaultColumn = EmptyDef
    /\ features = <<>>
    /\ orderColumnsFn = "identity"
    /\ nodes = <<>>
    /\ call = NoCall
    /\ optionsIsStore \in BOOLEAN
    /\ optionsStore \in UserOptions
    /\ resolvedOptions = ResolveOptions(optionsStore)
    /\ tableOptions = resolvedOptions
    /\ stateStore = InitialState
    /\ subscribers = 0

\* tableReadable.subscribe(run): the first subscriber starts the store, which
\* subscribes to the combined store and is called back at once; every new
\* subscriber is then run with the table
Subscribe ==
    /\ subscribers < MaxSubscribers
    /\ subscribers' = subscribers + 1
    /\ IF subscribers = 0
       THEN /\ tableOptions' = SyncOptions(tableOptions, stateStore, optionsStore)
            /\ call' = [op |-> "subscribe",
                        events |-> <<"table.setOptions", "run(table)">>, notified |-> 1]
       ELSE /\ tableOptions' = tableOptions
            /\ call' = [op |-> "subscribe", events |-> <<"run(table)">>, notified |-> 1]
    /\ UNCHANGED <<columnModel, optionsStore, optionsIsStore, resolvedOptions, stateStore>>

\* the unsubscribe function: the last subscriber leaving stops the store
Unsubscribe ==
    /\ subscribers > 0
    /\ subscribers' = subscribers - 1
    /\ call' = [op |-> "unsubscribe",
                events |-> IF subscribers = 1 THEN <<"stop">> ELSE <<>>, notified |-> 0]
    /\ UNCHANGED <<columnModel, optionsStore, optionsIsStore, resolvedOptions, stateStore,
                   tableOptions>>

\* table.setState(updater): the table calls table.options.onStateChange
TableSetState(updater) ==
    /\ IF tableOptions.onStateChange = "adapter"
       THEN /\ stateStore' = StoreAfter(updater, stateStore)
            /\ IF subscribers > 0
               THEN /\ tableOptions' = SyncOptions(tableOptions, stateStore', optionsStore)
                    /\ call' = [op |-> "setState", updater |-> updater,
                                events |-> <<"stateStore", "table.setOptions", "set(table)",
                                             "onStateChange">>,
                                notified |-> subscribers,
                                forwardedTo |-> resolvedOptions.onStateChange]
               ELSE /\ tableOptions' = tableOptions
                    /\ call' = [op |-> "setState", updater |-> updater,
                                events |-> <<"stateStore", "onStateChange">>,
                                notified |-> 0,
                                forwardedTo |-> resolvedOptions.onStateChange]
       ELSE /\ stateStore' = stateStore
            /\ tableOptions' = tableOptions
            /\ call' = [op |-> "setState", updater |-> updater,
                        events |-> <<"onStateChange">>,
                        notified |-> 0,
                        forwardedTo |-> tableOptions.onStateChange]
    /\ UNCHANGED <<columnModel, optionsStore, optionsIsStore, resolvedOptions, subscribers>>

\* the user's options store takes another value
SetOptionsStore(options) ==
    /\ optionsIsStore
    /\ options # optionsStore
    /\ optionsStore' = options
    /\ IF subscribers > 0
       THEN /\ tableOptions' = SyncOptions(tableOptions, stateStore, options)
            /\ call' = [op |-> "setOptionsStore",
                        events |-> <<"table.setOptions", "set(table)">>,
                        notified |-> subscribers]
       ELSE /\ tableOptions' = tableOptions
            /\ call' = [op |-> "setOptionsStore", events |-> <<>>, notified |-> 0]
    /\ UNCHANGED <<columnModel, optionsIsStore, resolvedOptions, stateStore, subscribers>>

NextSvelte ==
    \/ Subscribe
    \/ Unsubscribe
    \/ \E updater \in Updaters : TableSetState(updater)
    \/ \E options \in UserOptions : SetOptionsStore(options)

SpecSvelte == InitSvelte /\ [][NextSvelte]_vars

\* the stored state with the user's options.state laid over it
UserKeysWin(state, userState) ==
    [k \in StateKeys |-> IF userState[k] = "u" THEN "u" ELSE state[k]]

====
